---- MODULE Spec2Model ----
(***************************************************************************)
(* The rate-limited, cached, fallback-chaining search tool of tools.py     *)
(* (RateLimitedSearchTool.run, optimize_search_query, fallback_search) and *)
(* the rate-limited agent executor of main.py                              *)
(* (RateLimitedAgentExecutor.invoke), as one single-threaded state machine,*)
(* and with them the five wrappers of the MCP functions of mcp_tools.py.   *)
(*                                                                         *)
(* A Python string is a sequence of fragments that are concatenated; the   *)
(* fragment " " is one blank.  In a query every word is one fragment, so   *)
(* str.split() keeps the fragments that are not blanks and " ".join() puts *)
(* one blank between the words.  Time is the value of time.time() in whole *)
(* seconds.                                                                *)
(***************************************************************************)
EXTENDS Integers, Sequences, FiniteSets, TLC

VARIABLES
    now,               \* time.time()
    search_cache,      \* tools._search_cache: a dict, DOMAIN = its keys
    last_search_time,  \* RateLimitedSearchTool._last_search_time
    last_call_time,    \* rate_limited_executor.last_call_time
    pc,                \* position of the caller in run: "idle", "loop", "done"
    query,             \* run's argument
    optimized_query,   \* run's local
    max_retries,       \* self.max_retries of the instance in use
    initial_backoff,   \* self.initial_backoff
    use_cache,         \* self.use_cache
    attempt,           \* the loop index of run
    ret,               \* what the invocation of run ended with
    outcomes,          \* history: how each search_runner.run call of this invocation ended
    kind,              \* history: the exit path of this invocation
    gate_passed,       \* history: this invocation went through lines 85-91
    slept,             \* history: the rate-gate sleep of this invocation
    stamp_before,      \* history: _last_search_time when the invocation began
    gate_time,         \* history: time.time() when the gate was left
    last_dispatch,     \* history: time of the last search_runner.run call (0: none yet)
    dispatch_gap,      \* history: seconds between the last two such calls (-1: none)
    prior,             \* history: an earlier cached-mode invocation and how it ended
    epc,               \* position in RateLimitedAgentExecutor.invoke: "idle", "inner", "done"
    eslept,            \* history: the sleep of the last executor invocation
    estamp_before,     \* history: last_call_time when that invocation began
    egate_time,        \* history: time.time() when its gate was left
    eret,              \* history: how the executor invocation ended
    runs,              \* history: invocations of run so far
    invokes,           \* history: invocations of invoke so far
    mcp_globals,       \* the MCP function names that are in globals() of mcp_tools
    mpc,               \* position in a wrapper of mcp_tools: "idle", "primary", "done"
    mtool,             \* the wrapper that is running
    marg,              \* its query, url or problem
    thought_number,    \* sequential_thinking's local
    mret,              \* what the wrapper ended with
    mkind,             \* history: its exit path
    mcalls,            \* history: how each call of the MCP function ended
    oq_query,          \* the string a caller composes and passes to optimize_search_query
    oq_result,         \* what optimize_search_query returned
    oq_pc,             \* that caller's position: "compose", "returned"
    fn_call,           \* a function called on its own: its name and its arguments
    fn_ext,            \* history: the calls it made of an external service
    fn_ret,            \* what it returned
    max_searches,      \* the max_searches the executor was constructed with
    threads            \* the callers of run that run side by side, each with its
                       \* position in run and its local values

\* The state of tools.py and main.py, and the state of mcp_tools.py.
search_vars == <<now, search_cache, last_search_time, last_call_time, pc, query,
                 optimized_query, max_retries, initial_backoff, use_cache, attempt, ret,
                 outcomes, kind, gate_passed, slept, stamp_before, gate_time,
                 last_dispatch, dispatch_gap, prior, epc, eslept, estamp_before,
                 egate_time, eret, runs, invokes>>

mcp_vars == <<mcp_globals, mpc, mtool, marg, thought_number, mret, mkind, mcalls>>

oq_vars == <<oq_query, oq_result, oq_pc>>

\* The state of a direct call of one of the text-building functions.
fn_vars == <<fn_call, fn_ext, fn_ret>>

\* The arguments of RateLimitedAgentExecutor that __init__ does not keep.
exec_args == <<max_searches>>

\* The state of the callers of run that share the process.
thr_vars == <<threads>>

aux_vars == <<fn_vars, exec_args, thr_vars>>

vars == <<search_vars, mcp_vars, oq_vars, aux_vars>>

(***************************************************************************)
(* Bounds of the model.                                                    *)
(***************************************************************************)
StartTime == 1        \* time.time() when the program starts
MaxTime == 7          \* no invocation begins and no idle second passes after it
MaxRuns == 2          \* invocations of run in one process lifetime
MaxInvokes == 2       \* invocations of the executor in one process lifetime
MaxAnyRetries == 1    \* when any setting goes, max_retries is in -1..MaxAnyRetries
MaxRetriesBound == 3  \* instances are built with max_retries in 0..MaxRetriesBound
MaxWords == 9         \* a composed query has at most MaxWords words
MaxSteps == 6         \* a function is called with steps in -MaxSteps..MaxSteps

(***************************************************************************)
(* Program constants.                                                      *)
(***************************************************************************)
min_delay_between_searches == 5
default_max_retries == 3
default_initial_backoff == 5
min_delay == 2
default_max_searches == 4
JitterLo == 1
JitterHi == 3
BackoffBase == 3
LongQueryWords == 8
MinImportantWords == 3
MinWordLen == 2
MinWikiLen == 100

(***************************************************************************)
(* Strings.                                                                *)
(***************************************************************************)
Blank == " "

\* " ".join(words)
RECURSIVE Join(_)
Join(words) ==
    IF Len(words) = 0 THEN <<>>
    ELSE IF Len(words) = 1 THEN words
    ELSE <<Head(words), Blank>> \o Join(Tail(words))

\* query.split(): the words of a query, its blanks dropped
Split(s) == SelectSeq(s, LAMBDA f : f # Blank)

\* w.lower(), on the words the queries below are made of
Lower(w) ==
    CASE w = "AI" -> "ai"
      [] w = "The" -> "the"
      [] w = "What" -> "what"
      [] w = "Explain" -> "explain"
      [] w = "Bhagavad" -> "bhagavad"
      [] w = "Gita" -> "gita"
      [] OTHER -> w

\* s.lower()
LowerAll(s) == [i \in 1..Len(s) |-> Lower(s[i])]

\* needle in str(e): one of the fragments of the message is the needle
Contains(s, needle) == \E i \in 1..Len(s) : s[i] = needle

\* needle in s, for a needle of several fragments: they are in s, side by side
Substring(needle, s) ==
    \E i \in 0..(Len(s) - Len(needle)) : SubSeq(s, i + 1, i + Len(needle)) = needle

filler_words ==
    {"the", "a", "an", "and", "or", "but", "in", "on", "at", "to", "for", "with",
     "about", "is", "are"}

\* An optimizer that joins all the words, not the important ones.
optimize_search_query_join_all(q) ==
    LET words == Split(q)
        important_words ==
            SelectSeq(words, LAMBDA w : Len(w) > MinWordLen /\ Lower(w) \notin filler_words)
    IN  IF Len(words) > LongQueryWords /\ Len(important_words) > MinImportantWords
        THEN Join(words)
        ELSE q
\* An optimizer that takes a query of eight words for a long one.
optimize_search_query_from_eight(q) ==
    LET words == Split(q)
        important_words ==
            SelectSeq(words, LAMBDA w : Len(w) > MinWordLen /\ Lower(w) \notin filler_words)
    IN  IF Len(words) >= LongQueryWords /\ Len(important_words) > MinImportantWords
        THEN Join(important_words)
        ELSE q
optimize_search_query(q) ==
    LET words == Split(q)
        important_words ==
            SelectSeq(words, LAMBDA w : Len(w) > MinWordLen /\ Lower(w) \notin filler_words)
    IN  IF Len(words) > LongQueryWords /\ Len(important_words) > MinImportantWords
        THEN Join(important_words)
        ELSE q

(***************************************************************************)
(* The queries the callers pass.                                           *)
(***************************************************************************)
QShort == <<"AI">>
QLong ==
    Join(<<"What", "is", "the", "impact", "of", "AI", "on", "The", "global", "job",
           "market">>)
QOpt == Join(<<"What", "impact", "global", "job", "market">>)
Queries == {QShort, QLong, QOpt}

\* Long queries: one with words to drop, one of nine words of which none is
\* dropped, and that one with a blank before it.
QPlain ==
    Join(<<"impact", "global", "job", "market", "growth", "trends", "across", "many",
           "countries">>)
QWide == <<Blank>> \o QPlain
LongQueries == {QLong, QPlain, QWide}

\* Problems: two that name the Bhagavad Gita as advanced_sequential_thinking
\* tests it (mcp_tools.py, line 300), two that do not.
QGita == Join(<<"Explain", "the", "Bhagavad", "Gita">>)
QGeeta == Join(<<"bhagwat", "geeta">>)
Problems == {QShort, QLong, QGita, QGeeta}

(***************************************************************************)
(* What the external services answer.                                      *)
(***************************************************************************)
Results == {<<"r1">>, <<"r2">>}
RatelimitMsg == <<"202", Blank, "Ratelimit">>
TimeoutMsg == <<"timed", Blank, "out">>

\* search_runner.run(optimized_query): a result, a DuckDuckGoSearchException or
\* another Exception, each with its message
SearchOutcomes ==
    [type : {"ok"}, text : Results]
        \cup [type : {"ddg"}, text : {RatelimitMsg, TimeoutMsg}]
        \cup [type : {"exc"}, text : {RatelimitMsg}]

\* wikipedia.run(query): a text of some length, or an exception
WikiTexts == {<<>>, <<"w100">>, <<"w101">>}
StrLen(s) ==
    CASE s = <<>> -> 0
      [] s = <<"w100">> -> 100
      [] s = <<"w101">> -> 101
WikiOutcomes == [type : {"ok"}, text : WikiTexts] \cup [type : {"exc"}, text : {<<>>}]

(***************************************************************************)
(* The values an invocation ends with.                                     *)
(***************************************************************************)
Str(s) == [tag |-> "str", val |-> s]
None == [tag |-> "none", val |-> <<>>]
Raised(name) == [tag |-> "raise", val |-> <<name>>]
NoRet == [tag |-> "running", val |-> <<>>]
NoEnv == [type |-> "none", text |-> <<>>]
NoCall == [name |-> "none", arg |-> <<>>, steps |-> 0, env |-> NoEnv]
NoPrior == [query |-> <<>>, ret |-> NoRet, kind |-> "none"]

\* The callers of run, and a caller that is not in run.
Threads == {1, 2}
NoThread ==
    [pc |-> "idle", query |-> <<>>, attempt |-> 0, wake |-> 0, result |-> <<>>,
     ret |-> NoRet, seen |-> -1, passed |-> 0, dispatched |-> 0, called |-> 0]

FallbackTemplate(q) ==
    <<"Search is currently rate-limited. Here are some suggestions: ...",
      "Your query was: '">> \o q
        \o <<"'", "This limitation is due to DuckDuckGo's rate limiting policy ...">>

WikipediaInstead(text) ==
    <<"DuckDuckGo search is currently rate-limited. Using Wikipedia instead:">>
        \o text \o <<"(Note: This result is from Wikipedia rather than a web search. ...)">>

\* A fallback that takes a Wikipedia text of 100 characters for a long one.
fallback_search_from_min(q, wiki) ==
    IF wiki.type = "ok" /\ wiki.text # <<>> /\ StrLen(wiki.text) >= MinWikiLen
    THEN WikipediaInstead(wiki.text)
    ELSE FallbackTemplate(q)
fallback_search(q, wiki) ==
    IF wiki.type = "ok" /\ wiki.text # <<>> /\ StrLen(wiki.text) > MinWikiLen
    THEN WikipediaInstead(wiki.text)
    ELSE FallbackTemplate(q)

UnexpectedSearchError(msg) == <<"Unexpected search error: ">> \o msg

(***************************************************************************)
(* The two rate gates.                                                     *)
(***************************************************************************)
\* delay_time without the test that the timestamp was ever set
delay_time_unset_not_tested(current_time, last) ==
    LET elapsed == current_time - last
    IN  IF elapsed < min_delay_between_searches
        THEN min_delay_between_searches - elapsed
        ELSE 0

\* delay_time reading the executor's timestamp in place of the search tool's
delay_time_of_executor_stamp(current_time, last) ==
    LET elapsed == current_time - last_call_time
    IN  IF elapsed < min_delay_between_searches /\ last_call_time > 0
        THEN min_delay_between_searches - elapsed
        ELSE 0

\* tools.py: the sleep of run before a search at time current_time
delay_time(current_time, last) ==
    LET elapsed == current_time - last
    IN  IF elapsed < min_delay_between_searches /\ last > 0
        THEN min_delay_between_searches - elapsed
        ELSE 0

\* sleep_time without the test that the timestamp was ever set
sleep_time_unset_not_tested(current_time, last) ==
    LET elapsed == current_time - last
    IN  IF elapsed < min_delay THEN min_delay - elapsed ELSE 0

\* main.py: the sleep of invoke at time current_time
sleep_time(current_time, last) ==
    LET elapsed == current_time - last
    IN  IF elapsed < min_delay /\ last > 0
        THEN min_delay - elapsed
        ELSE 0

\* tools.py: the sleep before the retry that follows attempt number a
\* A backoff that doubles where line 117 triples.
backoff_time_doubling(backoff, a, jitter) == backoff * (2 ^ a) + jitter
backoff_time(backoff, a, jitter) == backoff * (BackoffBase ^ a) + jitter

(***************************************************************************)
(* RateLimitedSearchTool.run                                               *)
(***************************************************************************)
\* should_retry with the last attempt retried too (attempt <= self.max_retries)
should_retry_once_more(msg, a, retries) == Contains(msg, "Ratelimit") /\ a <= retries

\* should_retry giving up one attempt early (attempt + 1 < self.max_retries)
should_retry_one_less(msg, a, retries) == Contains(msg, "Ratelimit") /\ a + 1 < retries

\* line 115: the condition under which a DuckDuckGoSearchException is retried
should_retry(msg, a, retries) == Contains(msg, "Ratelimit") /\ a < retries

\* cache_result with the flag inverted (if not self.use_cache)
cache_result_flag_inverted(cache, q, opt, result, enabled) ==
    IF ~enabled THEN (opt :> result) @@ (q :> result) @@ cache ELSE cache

\* lines 110-112: the cache after search_runner.run returned result
\* A cache write under the raw query alone.
cache_result_raw_only(cache, q, opt, result, enabled) ==
    IF enabled THEN (q :> result) @@ cache ELSE cache
cache_result(cache, q, opt, result, enabled) ==
    IF enabled THEN (opt :> result) @@ (q :> result) @@ cache ELSE cache

\* stamp_search with one timestamp shared by the two gates
stamp_search_both(t, search_stamp, executor_stamp) == <<t, t>>

\* line 104: the two gates' timestamps <<search, executor>> after run left its gate at t
stamp_search(t, search_stamp, executor_stamp) == <<t, executor_stamp>>

\* stamp_executor with one timestamp shared by the two gates
stamp_executor_both(t, search_stamp, executor_stamp) == <<t, t>>

\* main.py, line 474: the same after invoke left its gate at t
stamp_executor(t, search_stamp, executor_stamp) == <<search_stamp, t>>

\* line 80: the lookup on the raw query
raw_cache_hit(cache, q, enabled) == enabled /\ q \in DOMAIN cache

\* A run that never looks the optimized query up.
optimized_cache_hit_never(cache, q, opt, enabled) == FALSE
\* line 99: the lookup on the optimized query
optimized_cache_hit(cache, q, opt, enabled) ==
    opt # q /\ enabled /\ opt \in DOMAIN cache

\* The raw query as the argument of search_runner.run.
search_argument_raw(q, opt) == q
\* line 108: the argument of search_runner.run
search_argument(q, opt) == opt

\* The state after the modules are loaded: search_tool wraps the one instance of
\* RateLimitedSearchTool (tools.py, line 133), built with the given settings, and
\* no wrapper of mcp_tools is running.
ConstructWith(retries, backoff, cached, searches) ==
    /\ max_searches = searches
    /\ threads = [t \in Threads |-> NoThread]
    /\ fn_call = NoCall
    /\ fn_ext = 0
    /\ fn_ret = NoRet
    /\ oq_query = <<>>
    /\ oq_result = <<>>
    /\ oq_pc = "compose"
    /\ mpc = "idle"
    /\ mtool = "none"
    /\ marg = <<>>
    /\ thought_number = 0
    /\ mret = NoRet
    /\ mkind = "none"
    /\ mcalls = <<>>
    /\ now = StartTime
    /\ search_cache = <<>>
    /\ last_search_time = 0
    /\ last_call_time = 0
    /\ pc = "idle"
    /\ query = <<>>
    /\ optimized_query = <<>>
    /\ max_retries = retries
    /\ initial_backoff = backoff
    /\ use_cache = cached
    /\ attempt = 0
    /\ ret = NoRet
    /\ outcomes = <<>>
    /\ kind = "none"
    /\ gate_passed = FALSE
    /\ slept = 0
    /\ stamp_before = 0
    /\ gate_time = 0
    /\ last_dispatch = 0
    /\ dispatch_gap = -1
    /\ prior = NoPrior
    /\ epc = "idle"
    /\ eslept = 0
    /\ estamp_before = 0
    /\ egate_time = 0
    /\ eret = "none"
    /\ runs = 0
    /\ invokes = 0

\* The same with the executor of main.py, line 479, which passes no max_searches.
Construct(retries, backoff, cached) ==
    ConstructWith(retries, backoff, cached, default_max_searches)

\* Lines 77-104 and the entry of the loop of line 106: the cache lookup on the raw
\* query, the rate gate with its sleep, the optimizer, the cache lookup on the
\* optimized query and the update of _last_search_time.
RunStart(q) ==
    LET retries == max_retries
        cached == use_cache
        raw_hit == raw_cache_hit(search_cache, q, cached)
        d == delay_time(now, last_search_time)
        opt == optimize_search_query(q)
        opt_hit == ~raw_hit /\ optimized_cache_hit(search_cache, q, opt, cached)
        enters == ~raw_hit /\ ~opt_hit
        t == IF raw_hit THEN now ELSE now + d
        stamps == IF enters THEN stamp_search(t, last_search_time, last_call_time)
                  ELSE <<last_search_time, last_call_time>>
    IN  /\ pc = "idle"
        /\ now <= MaxTime
        /\ runs < MaxRuns
        /\ runs' = runs + 1
        /\ query' = q
        /\ optimized_query' = IF raw_hit THEN <<>> ELSE opt
        /\ now' = t
        /\ last_search_time' = stamps[1]
        /\ last_call_time' = stamps[2]
        /\ attempt' = 0
        /\ outcomes' = <<>>
        /\ gate_passed' = ~raw_hit
        /\ slept' = IF raw_hit THEN 0 ELSE d
        /\ stamp_before' = last_search_time
        /\ gate_time' = IF raw_hit THEN 0 ELSE t
        /\ pc' = IF enters /\ 0 < retries + 1 THEN "loop" ELSE "done"
        /\ ret' = IF raw_hit THEN Str(search_cache[q])
                  ELSE IF opt_hit THEN Str(search_cache[opt])
                  ELSE IF 0 < retries + 1 THEN NoRet
                  ELSE None
        /\ kind' = IF raw_hit THEN "cache_raw"
                   ELSE IF opt_hit THEN "cache_opt"
                   ELSE IF 0 < retries + 1 THEN "none"
                   ELSE "fell_through"
        /\ UNCHANGED <<max_retries, initial_backoff, use_cache, search_cache,
                       last_dispatch, dispatch_gap, prior, epc, eslept,
                       estamp_before, egate_time, eret, invokes>>
        /\ UNCHANGED <<mcp_vars, oq_vars, aux_vars>>

\* Lines 106-124: one iteration of the loop.  search_runner.run is called at the
\* current time and ends as o; jitter is random.uniform(1, 3)
\* and wiki is what wikipedia.run does if fallback_search is reached.
RunAttempt(o, jitter, wiki) ==
    LET t == now
        retry == o.type = "ddg" /\ should_retry(o.text, attempt, max_retries)
        b == backoff_time(initial_backoff, attempt, jitter)
        sleeps == retry /\ b >= 0
        again == sleeps /\ attempt + 1 < max_retries + 1
    IN  /\ pc = "loop"
        /\ last_dispatch' = now
        /\ dispatch_gap' = IF last_dispatch > 0 THEN now - last_dispatch ELSE -1
        /\ outcomes' = Append(outcomes, [type |-> o.type, text |-> o.text,
                                         arg |-> search_argument(query, optimized_query)])
        /\ now' = IF sleeps THEN t + b ELSE t
        /\ attempt' = IF sleeps THEN attempt + 1 ELSE attempt
        /\ pc' = IF again THEN "loop" ELSE "done"
        /\ search_cache' =
               IF o.type = "ok"
               THEN cache_result(search_cache, query, optimized_query, o.text, use_cache)
               ELSE search_cache
        /\ ret' = IF o.type = "ok" THEN Str(o.text)
                  ELSE IF o.type = "exc" THEN Str(UnexpectedSearchError(o.text))
                  ELSE IF ~retry THEN Str(fallback_search(query, wiki))
                  ELSE IF ~sleeps THEN Raised("ValueError")
                  ELSE IF again THEN NoRet
                  ELSE None
        /\ kind' = IF o.type = "ok" THEN "success"
                   ELSE IF o.type = "exc" THEN "error_string"
                   ELSE IF ~retry THEN "fallback"
                   ELSE IF ~sleeps THEN "raised"
                   ELSE IF again THEN "none"
                   ELSE "fell_through"
        /\ UNCHANGED <<last_search_time, last_call_time, query, optimized_query,
                       max_retries, initial_backoff, use_cache, gate_passed, slept,
                       stamp_before, gate_time, prior, epc, eslept, estamp_before,
                       egate_time, eret, runs, invokes>>
        /\ UNCHANGED <<mcp_vars, oq_vars, aux_vars>>

\* The caller takes what run ended with.  (The history keeps one earlier invocation
\* of an instance with use_cache: this one if remember, else the one it had.)
RunReturn(remember) ==
    /\ pc = "done"
    /\ pc' = "idle"
    /\ prior' = IF remember /\ use_cache
                THEN [query |-> query, ret |-> ret, kind |-> kind]
                ELSE prior
    /\ dispatch_gap' = -1
    /\ query' = <<>>
    /\ optimized_query' = <<>>
    /\ attempt' = 0
    /\ ret' = NoRet
    /\ outcomes' = <<>>
    /\ kind' = "none"
    /\ gate_passed' = FALSE
    /\ slept' = 0
    /\ stamp_before' = 0
    /\ gate_time' = 0
    /\ UNCHANGED <<now, search_cache, last_search_time, last_call_time, last_dispatch,
                   max_retries, initial_backoff, use_cache, epc, eslept, estamp_before, egate_time, eret, runs, invokes>>
    /\ UNCHANGED <<mcp_vars, oq_vars, aux_vars>>

(***************************************************************************)
(* RateLimitedAgentExecutor.invoke                                         *)
(***************************************************************************)
\* Lines 462-474: the gate with its sleep and the update of last_call_time; the
\* wrapped AgentExecutor then runs, calling tools.
ExecInvoke ==
    LET d == sleep_time(now, last_call_time)
        t == now + d
        stamps == stamp_executor(t, last_search_time, last_call_time)
    IN  /\ epc = "idle"
        /\ pc = "idle"
        /\ now <= MaxTime
        /\ invokes < MaxInvokes
        /\ invokes' = invokes + 1
        /\ epc' = "inner"
        /\ now' = t
        /\ last_search_time' = stamps[1]
        /\ last_call_time' = stamps[2]
        /\ eslept' = d
        /\ estamp_before' = last_call_time
        /\ egate_time' = t
        /\ eret' = "none"
        /\ UNCHANGED <<search_cache, pc, query, optimized_query, max_retries,
                       initial_backoff, use_cache, attempt, ret, outcomes,
                       kind, gate_passed, slept, stamp_before, gate_time, last_dispatch,
                       dispatch_gap, prior, runs>>
        /\ UNCHANGED <<mcp_vars, oq_vars, aux_vars>>

\* Line 475: the wrapped AgentExecutor returns or raises (how is "ok" or "raise"),
\* and so does invoke.
ExecFinish(how) ==
    /\ epc = "inner"
    /\ pc = "idle"
    /\ epc' = "done"
    /\ eret' = how
    /\ UNCHANGED <<now, search_cache, last_search_time, last_call_time, pc, query,
                   optimized_query, max_retries, initial_backoff, use_cache, attempt,
                   ret, outcomes, kind, gate_passed, slept, stamp_before,
                   gate_time, last_dispatch, dispatch_gap, prior, eslept, estamp_before,
                   egate_time, runs, invokes>>
    /\ UNCHANGED <<mcp_vars, oq_vars, aux_vars>>

\* The caller of invoke takes what it ended with.
ExecReturn ==
    /\ epc = "done"
    /\ epc' = "idle"
    /\ eret' = "none"
    /\ eslept' = 0
    /\ estamp_before' = 0
    /\ egate_time' = 0
    /\ UNCHANGED <<now, search_cache, last_search_time, last_call_time, pc, query,
                   optimized_query, max_retries, initial_backoff, use_cache, attempt,
                   ret, outcomes, kind, gate_passed, slept, stamp_before,
                   gate_time, last_dispatch, dispatch_gap, prior, runs, invokes>>
    /\ UNCHANGED <<mcp_vars, oq_vars, aux_vars>>

\* A second passes between two calls.
Tick ==
    /\ pc = "idle"
    /\ now < MaxTime
    /\ now' = now + 1
    /\ UNCHANGED <<search_cache, last_search_time, last_call_time, pc, query,
                   optimized_query, max_retries, initial_backoff, use_cache, attempt,
                   ret, outcomes, kind, gate_passed, slept, stamp_before,
                   gate_time, last_dispatch, dispatch_gap, prior, epc, eslept,
                   estamp_before, egate_time, eret, runs, invokes>>
    /\ UNCHANGED <<mcp_vars, oq_vars, aux_vars>>

(***************************************************************************)
(* mcp_tools.py: the five wrappers of the MCP functions.                   *)
(***************************************************************************)
McpTools == {"web_scrape", "web_search", "deep_crawl", "deep_research", "sequential_thinking"}

\* The name each wrapper looks up in globals() (lines 73, 101, 138, 167, 266).
capability(tool) ==
    CASE tool = "web_scrape" -> "mcp_firecrawl_firecrawl_scrape"
      [] tool = "web_search" -> "mcp_firecrawl_firecrawl_search"
      [] tool = "deep_crawl" -> "mcp_firecrawl_firecrawl_crawl"
      [] tool = "deep_research" -> "mcp_firecrawl_firecrawl_deep_research"
      [] tool = "sequential_thinking" -> "mcp_server_sequential_thinking_sequentialthinking"

McpFunctions == {capability(tool) : tool \in McpTools}

\* A wrapper that takes every MCP function to be there.
registered_always(name, names) == TRUE
\* name in globals()
registered(name, names) == name \in names

\* A wrapper that calls the MCP function again after a call raised, as run does.
primary_retried_as_run(calls) == calls <= default_max_retries
\* The except clauses of the wrappers (lines 86, 122, 151, 179, 294) return: after
\* its calls-th call raised, an MCP function is not called again.
primary_retried(calls) == FALSE

\* What an MCP function does when called: it returns a dict (more is its
\* nextThoughtNeeded), returns something that is no dict, or raises.
McpResult == <<"m1">>
McpOutcomes ==
    [type : {"dict"}, text : {McpResult}, more : BOOLEAN]
        \cup [type : {"other"}, text : {McpResult}, more : {FALSE}]
        \cup [type : {"raise"}, text : {RatelimitMsg, TimeoutMsg}, more : {FALSE}]

\* requests.get in fallback_web_scrape: a page, or an exception
PageText == <<"page">>
HttpOutcomes == [type : {"ok"}, text : {PageText}] \cup [type : {"exc"}, text : {TimeoutMsg}]

\* The arguments the agent passes: a query, a url or a problem
McpArgs == {QShort, QLong}

\* lines 14-42
fallback_web_scrape(url, http) ==
    IF http.type = "ok" THEN http.text ELSE <<"Error scraping webpage: ">> \o http.text

\* lines 44-46
fallback_web_search(q) ==
    <<"Advanced web search not available in this environment. Please use the standard Search tool instead with query: ">>
        \o q

\* lines 182-223, with neither wiki_tool nor search_tool in the globals of mcp_tools
advanced_deep_research(q) ==
    <<"# Deep Research: ">> \o q
        \o <<"## Overview This research combines information from Wikipedia and web searches to provide a comprehensive analysis of ">>
        \o q
        \o <<"## Wikipedia Information", "Wikipedia tool not available", "...",
              "## Web Search Results", "Search tool not available", "...",
              "## Analysis and Synthesis The information gathered shows multiple perspectives on ">>
        \o q
        \o <<"## Key Takeaways ... ## Conclusion ...">>

\* thinking_steps[:steps]
Slice(seq, n) ==
    IF n >= 0 THEN SubSeq(seq, 1, IF n < Len(seq) THEN n ELSE Len(seq))
    ELSE SubSeq(seq, 1, Len(seq) + n)

\* "\n\n".join(steps)
RECURSIVE JoinSteps(_)
JoinSteps(steps) ==
    IF Len(steps) = 0 THEN <<>>
    ELSE IF Len(steps) = 1 THEN Head(steps)
    ELSE Head(steps) \o <<"\n\n">> \o JoinSteps(Tail(steps))

DefaultSteps == 5
MaxThoughts == 10

\* line 300: the test on problem.lower()
names_gita(problem) ==
    \/ Substring(<<"bhagavad", Blank, "gita">>, LowerAll(problem))
    \/ Substring(<<"bhagwat", Blank, "geeta">>, LowerAll(problem))

\* lines 302-312: the five steps written for the Bhagavad Gita
gita_steps ==
    << <<"STEP 1: DEFINE THE SCOPE OF ANALYSIS The question concerns different interpretations of the ",
         "Bhagavad", Blank, "Gita", " and their relationship to modern technology. ...">>,
       <<"STEP 2: ANALYZE MAJOR INTERPRETATIONS OF THE BHAGAVAD GITA ...">>,
       <<"STEP 3: ANALYZE TECHNOLOGICAL PARADIGMS AND CHALLENGES ...">>,
       <<"STEP 4: SYNTHESIZE GITA'S WISDOM WITH TECHNOLOGICAL CHALLENGES ...">>,
       <<"STEP 5: EVALUATE AND CONCLUDE ...">> >>

\* The steps without the problem in them.
generic_steps_without_problem(problem) ==
    << <<"STEP 1: DEFINE THE PROBLEM The problem to analyze is: ">>
           \o <<"I need to break this down into key components ...">>,
       <<"STEP 2: GATHER RELEVANT INFORMATION To approach this problem">>
           \o <<", I need to identify the key facts ...">>,
       <<"STEP 3: ANALYZE FROM MULTIPLE PERSPECTIVES ...">>,
       <<"STEP 4: SYNTHESIZE FINDINGS ...">>,
       <<"STEP 5: EVALUATE CONCLUSIONS ...">> >>
\* lines 315-330: the five steps for any other problem, "this problem" replaced
generic_steps(problem) ==
    << <<"STEP 1: DEFINE THE PROBLEM The problem to analyze is: ">> \o problem
           \o <<"I need to break this down into key components ...">>,
       <<"STEP 2: GATHER RELEVANT INFORMATION To approach the question about ">>
           \o problem \o <<", I need to identify the key facts ...">>,
       <<"STEP 3: ANALYZE FROM MULTIPLE PERSPECTIVES ...">>,
       <<"STEP 4: SYNTHESIZE FINDINGS ...">>,
       <<"STEP 5: EVALUATE CONCLUSIONS ...">> >>

\* lines 297-333
advanced_sequential_thinking(problem, steps) ==
    JoinSteps(Slice(IF names_gita(problem) THEN gita_steps ELSE generic_steps(problem),
                    steps))

\* lines 50-56
fallback_thinking_steps(problem) ==
    << <<"Initial analysis of problem: ">> \o problem,
       <<"Identifying key components of the problem">>,
       <<"Researching relevant information">>,
       <<"Considering different perspectives">>,
       <<"Formulating a solution based on analysis">> >>

\* line 58: f"Step {i+1}: {step}" for each of thinking_steps[:steps]
NumberedSteps(steps) ==
    [i \in 1..Len(steps) |-> <<"Step " \o ToString(i) \o ": ">> \o steps[i]]

\* lines 48-58
fallback_sequential_thinking(problem, steps) ==
    JoinSteps(NumberedSteps(Slice(fallback_thinking_steps(problem), steps)))

\* lines 224-246: the text of the except clause of advanced_deep_research
advanced_deep_research_basic(q) ==
    <<"# Deep Research on: ">> \o q
        \o <<"I attempted to gather comprehensive information on this topic but encountered technical limitations. ...">>

\* The else branch of each wrapper (lines 83-85, 110-121, 148-150, 176-178, 291-293).
fallback_of(tool, arg, http) ==
    CASE tool = "web_scrape" -> fallback_web_scrape(arg, http)
      [] tool = "web_search" -> fallback_web_search(arg)
      [] tool = "deep_crawl" ->
             <<"Deep crawling not available in this environment. Basic scrape of main URL: ">>
                 \o arg \o <<"\n\n">> \o fallback_web_scrape(arg, http)
      [] tool = "deep_research" -> advanced_deep_research(arg)
      [] tool = "sequential_thinking" -> advanced_sequential_thinking(arg, DefaultSteps)

\* The except clause of each wrapper, msg being str(e).
except_of(tool, arg, msg) ==
    CASE tool = "web_scrape" -> <<"Error scraping webpage: ">> \o msg
      [] tool = "web_search" -> fallback_web_search(arg)
      [] tool = "deep_crawl" -> <<"Error starting deep crawl: ">> \o msg
      [] tool = "deep_research" -> advanced_deep_research(arg)
      [] tool = "sequential_thinking" -> advanced_sequential_thinking(arg, DefaultSteps)

except_kind(tool) == IF tool \in {"web_scrape", "deep_crawl"} THEN "error" ELSE "fallback"

\* line 289: one "Step n" entry for each thought, n from 1
ThoughtSteps(calls) ==
    JoinSteps([i \in 1..Len(calls) |-> <<"Step " \o ToString(i) \o ": ">> \o calls[i].text])

\* What a wrapper returns when its MCP function returned.
primary_of(tool, calls) ==
    CASE tool = "web_scrape" -> calls[Len(calls)].text
      [] tool = "web_search" -> calls[Len(calls)].text
      [] tool = "deep_crawl" -> <<"Started deep crawl with job ID: ">> \o calls[Len(calls)].text
      [] tool = "deep_research" -> calls[Len(calls)].text
      [] tool = "sequential_thinking" -> ThoughtSteps(calls)

\* The agent calls a wrapper with one string: the wrapper looks its MCP function
\* up and, when it is not there, returns its fallback (http is what requests.get
\* does if fallback_web_scrape is reached).
McpStart(tool, arg, http) ==
    LET there == registered(capability(tool), mcp_globals)
    IN  /\ mpc = "idle"
        /\ mtool' = tool
        /\ marg' = arg
        /\ mcalls' = <<>>
        /\ thought_number' = IF there /\ tool = "sequential_thinking" THEN 1 ELSE 0
        /\ mpc' = IF there THEN "primary" ELSE "done"
        /\ mret' = IF there THEN NoRet ELSE Str(fallback_of(tool, arg, http))
        /\ mkind' = IF there THEN "none" ELSE "fallback"
        /\ UNCHANGED <<mcp_globals, search_vars, oq_vars, aux_vars>>

\* The loop of sequential_thinking going on through thought number 10 too.
continues_thinking_through_limit(more, n) == more /\ n <= MaxThoughts

\* line 279: the condition of the loop of sequential_thinking, more being the
\* nextThoughtNeeded of the last response and n the thought_number
continues_thinking(more, n) == more /\ n < MaxThoughts

\* One call of the MCP function, which ends as o.  An object that is no dict has
\* no get (lines 147, 277, 287): AttributeError.
McpCall(o) ==
    LET calls == Append(mcalls, o)
        raises == \/ o.type = "raise"
                  \/ o.type = "other" /\ mtool \in {"deep_crawl", "sequential_thinking"}
        msg == IF o.type = "raise" THEN o.text ELSE <<"object has no attribute 'get'">>
        retried == raises /\ primary_retried(Len(calls))
        continues == /\ ~raises
                     /\ mtool = "sequential_thinking"
                     /\ continues_thinking(o.more, thought_number)
    IN  /\ mpc = "primary"
        /\ mcalls' = calls
        /\ thought_number' = IF continues THEN thought_number + 1 ELSE thought_number
        /\ mpc' = IF continues \/ retried THEN "primary" ELSE "done"
        /\ mret' = IF continues \/ retried THEN NoRet
                   ELSE IF raises THEN Str(except_of(mtool, marg, msg))
                   ELSE Str(primary_of(mtool, calls))
        /\ mkind' = IF continues \/ retried THEN "none"
                    ELSE IF raises THEN except_kind(mtool)
                    ELSE "primary"
        /\ UNCHANGED <<mcp_globals, mtool, marg, search_vars, oq_vars, aux_vars>>

\* The agent takes what the wrapper returned.
McpReturn ==
    /\ mpc = "done"
    /\ mpc' = "idle"
    /\ mtool' = "none"
    /\ marg' = <<>>
    /\ thought_number' = 0
    /\ mret' = NoRet
    /\ mkind' = "none"
    /\ mcalls' = <<>>
    /\ UNCHANGED <<mcp_globals, search_vars, oq_vars, aux_vars>>

(***************************************************************************)
(* The specifications.                                                     *)
(***************************************************************************)
\* The settings an instance can be built with: a retry count and a backoff that
\* are not negative.
RetrySettings == 0..MaxRetriesBound
BackoffSettings == {0, default_initial_backoff}

\* Every setting the constructor accepts: it checks nothing.
AnyRetrySettings == -1..MaxAnyRetries
AnyBackoffSettings == {-default_initial_backoff, 0, default_initial_backoff}

\* Nothing in the repository puts an MCP function into the globals of mcp_tools.
NoMcp == {}

Init ==
    \E retries \in RetrySettings, backoff \in BackoffSettings, cached \in BOOLEAN :
        Construct(retries, backoff, cached) /\ mcp_globals = NoMcp

InitAny ==
    \E retries \in AnyRetrySettings, backoff \in AnyBackoffSettings, cached \in BOOLEAN :
        Construct(retries, backoff, cached) /\ mcp_globals = NoMcp

\* tools.py, line 133: RateLimitedSearchTool(standard_search)
InitAgent ==
    Construct(default_max_retries, default_initial_backoff, TRUE) /\ mcp_globals = NoMcp

Starts == \E q \in Queries : RunStart(q)

\* random.uniform is drawn on line 117 only, in the retry branch; wikipedia.run is
\* called in fallback_search only, on line 122.  (Where they are not reached, the
\* value passed is not used.)
JitterDrawn(o) ==
    IF o.type = "ddg" /\ should_retry(o.text, attempt, max_retries)
    THEN {JitterLo, JitterHi}
    ELSE {JitterLo}

WikiCalled(o) ==
    IF o.type = "ddg" /\ ~should_retry(o.text, attempt, max_retries)
    THEN WikiOutcomes
    ELSE {[type |-> "exc", text |-> <<>>]}

Attempts ==
    \E o \in SearchOutcomes :
        \E jitter \in JitterDrawn(o), wiki \in WikiCalled(o) : RunAttempt(o, jitter, wiki)

Returns == \E remember \in BOOLEAN : RunReturn(remember)

Finishes == \E how \in {"ok", "raise"} : ExecFinish(how)

\* The agent calls the tools while the executor runs it.  (Here the history keeps
\* no earlier invocation, the jitter is the least one and Wikipedia is down.)
AgentStarts == epc = "inner" /\ Starts

AgentAttempts ==
    \E o \in SearchOutcomes : RunAttempt(o, JitterLo, [type |-> "exc", text |-> <<>>])

AgentReturns == RunReturn(FALSE)

(***************************************************************************)
(* optimize_search_query, called on its own.                               *)
(***************************************************************************)
\* The words a composed query is made of: a stop-word in capitals, a word of two
\* letters and a word of three.
ComposeWords == {"The", "AI", "job"}

\* A caller composes a query: a blank first or not, then words with one blank
\* between them.
ComposeBlank ==
    /\ oq_pc = "compose"
    /\ oq_query = <<>>
    /\ oq_query' = <<Blank>>
    /\ UNCHANGED <<oq_result, oq_pc, search_vars, mcp_vars, aux_vars>>

ComposeWord(w) ==
    /\ oq_pc = "compose"
    /\ Len(Split(oq_query)) < MaxWords
    /\ oq_query' = IF Split(oq_query) = <<>> THEN oq_query \o <<w>>
                   ELSE oq_query \o <<Blank, w>>
    /\ UNCHANGED <<oq_result, oq_pc, search_vars, mcp_vars, aux_vars>>

\* tools.py, lines 45-58: the function reads its argument and returns a string
OptimizeCall ==
    /\ oq_pc = "compose"
    /\ oq_result' = optimize_search_query(oq_query)
    /\ oq_pc' = "returned"
    /\ UNCHANGED <<oq_query, search_vars, mcp_vars, aux_vars>>

NextOptimize == ComposeBlank \/ (\E w \in ComposeWords : ComposeWord(w)) \/ OptimizeCall

SpecOptimize ==
    Construct(default_max_retries, default_initial_backoff, TRUE) /\ mcp_globals = NoMcp
        /\ [][NextOptimize]_vars

\* The search tool of tools.py, line 133, called with long queries.
KeyStarts == \E q \in LongQueries : RunStart(q)
NextKeys == KeyStarts \/ Attempts \/ Returns \/ Tick
SpecKeys == InitAgent /\ [][NextKeys]_vars

\* The wrappers of mcp_tools, in a process where any of the MCP functions may have
\* been put into the globals of the module (the "Cursor environment").
InitMcp ==
    /\ Construct(default_max_retries, default_initial_backoff, TRUE)
    /\ mcp_globals \in SUBSET McpFunctions

McpStarts ==
    \E tool \in McpTools, arg \in McpArgs, http \in HttpOutcomes : McpStart(tool, arg, http)

McpCalls == \E o \in McpOutcomes : McpCall(o)

NextMcp == McpStarts \/ McpCalls \/ McpReturn

SpecMcp == InitMcp /\ [][NextMcp]_vars

\* A wrapper that called its MCP function gets an answer or an exception.
SpecMcpFair == InitMcp /\ [][NextMcp]_vars /\ WF_vars(McpCalls)

(***************************************************************************)
(* The functions that build a text, each called on its own.                *)
(***************************************************************************)
\* A caller calls a function, with no call of a function pending, and the call
\* ends with ended: a string returned or an exception raised.
Ended(name, arg, steps, env, ext, ended) ==
    /\ fn_call = NoCall
    /\ fn_call' = [name |-> name, arg |-> arg, steps |-> steps, env |-> env]
    /\ fn_ext' = ext
    /\ fn_ret' = ended
    /\ UNCHANGED <<search_vars, mcp_vars, oq_vars, exec_args, thr_vars>>

\* The same for a function that returns the string result.
Called(name, arg, steps, env, ext, result) ==
    Ended(name, arg, steps, env, ext, Str(result))

\* tools.py, lines 22-42: wikipedia.run is called on line 26, once
CallFallbackSearch(q, wiki) ==
    Called("fallback_search", q, 0, wiki, 1, fallback_search(q, wiki))

\* The caller takes what the function returned.
CallReturn ==
    /\ fn_call # NoCall
    /\ fn_call' = NoCall
    /\ fn_ext' = 0
    /\ fn_ret' = NoRet
    /\ UNCHANGED <<search_vars, mcp_vars, oq_vars, exec_args, thr_vars>>

\* mcp_tools.py, lines 44-46
CallFallbackWebSearch(q) ==
    Called("fallback_web_search", q, 0, NoEnv, 0, fallback_web_search(q))

\* mcp_tools.py, lines 182-246: the report, or the text of the except clause when
\* building the report raised
CallAdvancedDeepResearch(q, built) ==
    Called("advanced_deep_research", q, 0, built, 0,
           IF built.type = "ok" THEN advanced_deep_research(q)
           ELSE advanced_deep_research_basic(q))

\* mcp_tools.py, lines 297-333
CallAdvancedSequentialThinking(problem, steps) ==
    Called("advanced_sequential_thinking", problem, steps, NoEnv, 0,
           advanced_sequential_thinking(problem, steps))

\* mcp_tools.py, lines 48-58
CallFallbackSequentialThinking(problem, steps) ==
    Called("fallback_sequential_thinking", problem, steps, NoEnv, 0,
           fallback_sequential_thinking(problem, steps))

StepChoices == (0 - MaxSteps)..MaxSteps
ReportOutcomes == {[type |-> "ok", text |-> <<>>], [type |-> "exc", text |-> <<>>]}

TextCalls ==
    \/ \E q \in Problems, wiki \in WikiOutcomes : CallFallbackSearch(q, wiki)
    \/ \E q \in Problems : CallFallbackWebSearch(q)
    \/ \E q \in Problems, built \in ReportOutcomes : CallAdvancedDeepResearch(q, built)
    \/ \E q \in Problems, steps \in StepChoices : CallAdvancedSequentialThinking(q, steps)
    \/ \E q \in Problems, steps \in StepChoices : CallFallbackSequentialThinking(q, steps)

NextText == TextCalls \/ CallReturn

SpecText ==
    Construct(default_max_retries, default_initial_backoff, TRUE) /\ mcp_globals = NoMcp
        /\ [][NextText]_vars

(***************************************************************************)
(* The toolbelt of main.py, lines 426-434: the agent calls one tool at a   *)
(* time while rate_limited_executor.invoke runs it.                        *)
(***************************************************************************)
\* What the external operation of a basic tool ends as: it gives a text or it
\* raises.
ToolText == <<"text">>
ToolOutcomes ==
    [type : {"ok"}, text : {ToolText}] \cup [type : {"exc"}, text : {TimeoutMsg}]

\* tools.py, lines 137-142: the tool's function is wikipedia.run itself
wiki_tool(q, wiki) ==
    IF wiki.type = "ok" THEN Str(wiki.text) ELSE Raised("Exception")

\* tools.py, lines 161-169: open and write are in no try
save_research(research_data, file) ==
    IF file.type = "ok"
    THEN Str(<<"Research saved successfully to ", "research_<now>.txt">>)
    ELSE Raised("OSError")

\* tools.py, lines 178-206
scrape_webpage(url, http) ==
    Str(IF http.type = "ok" THEN http.text
        ELSE <<"Error scraping webpage: ">> \o http.text)

\* tools.py, lines 215-239
calculator(expression, eval) ==
    Str(CASE eval.type = "unsafe" ->
                <<"Invalid expression: potentially unsafe operations">>
          [] eval.type = "ok" -> <<"Result: ">> \o eval.text
          [] OTHER -> <<"Error calculating: ">> \o eval.text)

\* tools.py, lines 248-273
get_weather(location, api) ==
    Str(CASE api.type = "nokey" ->
                <<"Weather API key not found in environment variables">>
          [] api.type = "ok" ->
                <<"Weather in ">> \o location \o <<": ">> \o api.text
          [] OTHER -> <<"Error getting weather: ">> \o api.text)

\* tools.py, lines 282-314
get_news(q, api) ==
    Str(CASE api.type = "nokey" ->
                <<"News API key not found in environment variables">>
          [] api.type = "empty" -> <<"No news found for query: ">> \o q
          [] api.type = "ok" ->
                <<"Latest news on '">> \o q \o <<"':\n\n">> \o api.text
          [] OTHER -> <<"Error fetching news: ">> \o api.text)

\* tools.py, lines 323-376
scrape_reddit(q, http) ==
    Str(CASE http.type = "layout" ->
                <<"Couldn't extract Reddit posts using the current scraping method. Reddit may have changed their layout.">>
          [] http.type = "empty" -> <<"No results found on Reddit for query: ">> \o q
          [] http.type = "ok" ->
                <<"Reddit results for '">> \o q \o <<"':\n\n">> \o http.text
          [] OTHER -> <<"Error scraping Reddit: ">> \o http.text)

BasicTools ==
    {"Wikipedia", "SaveResearch", "scrape_webpage", "calculator", "get_weather",
     "get_news", "scrape_reddit"}

\* The agent calls the basic tool name with arg; its external operation ends as env.
CallBasicTool(name, arg, env) ==
    Ended(name, arg, 0, env, 1,
          CASE name = "Wikipedia" -> wiki_tool(arg, env)
            [] name = "SaveResearch" -> save_research(arg, env)
            [] name = "scrape_webpage" -> scrape_webpage(arg, env)
            [] name = "calculator" -> calculator(arg, env)
            [] name = "get_weather" -> get_weather(arg, env)
            [] name = "get_news" -> get_news(arg, env)
            [] name = "scrape_reddit" -> scrape_reddit(arg, env))

\* tools.py, lines 45-58, called on its own
CallOptimizeSearchQuery(q) ==
    Called("optimize_search_query", q, 0, NoEnv, 0, optimize_search_query(q))

\* The outcomes each basic tool's external operation has (line 223, lines 253,
\* 287, 302, 350 and 372 return early).
EnvOf(name) ==
    CASE name \in {"Wikipedia", "SaveResearch", "scrape_webpage"} -> ToolOutcomes
      [] name = "calculator" -> ToolOutcomes \cup [type : {"unsafe"}, text : {<<>>}]
      [] name = "get_weather" -> ToolOutcomes \cup [type : {"nokey"}, text : {<<>>}]
      [] name = "get_news" ->
            ToolOutcomes \cup [type : {"nokey", "empty"}, text : {<<>>}]
      [] name = "scrape_reddit" ->
            ToolOutcomes \cup [type : {"layout", "empty"}, text : {<<>>}]

\* The agent is between two calls of tools.
AgentIdle == epc = "inner" /\ pc = "idle" /\ mpc = "idle" /\ fn_call = NoCall

ToolbeltSearch == AgentIdle /\ Starts

ToolbeltMcp == AgentIdle /\ McpStarts

ToolbeltBasic ==
    AgentIdle /\ \E name \in BasicTools : \E env \in EnvOf(name) :
        CallBasicTool(name, QShort, env)

\* optimize_search_query and fallback_search, called by any code of the process
ToolbeltFunctions ==
    /\ pc = "idle"
    /\ mpc = "idle"
    /\ \/ \E q \in {QShort, QLong} : CallOptimizeSearchQuery(q)
       \/ \E wiki \in WikiOutcomes : CallFallbackSearch(QShort, wiki)

ToolbeltFinish == AgentIdle /\ Finishes

InitToolbelt ==
    /\ Construct(default_max_retries, default_initial_backoff, TRUE)
    /\ mcp_globals \in {NoMcp, McpFunctions}

NextToolbelt ==
    \/ ExecInvoke
    \/ ToolbeltSearch \/ AgentAttempts \/ AgentReturns
    \/ ToolbeltMcp \/ McpCalls \/ McpReturn
    \/ ToolbeltBasic \/ ToolbeltFunctions \/ CallReturn
    \/ ToolbeltFinish \/ ExecReturn

SpecToolbelt == InitToolbelt /\ [][NextToolbelt]_vars

(***************************************************************************)
(* RateLimitedSearchTool.run, called by two callers side by side (the      *)
(* sessions of streamlit_app.py run in threads of one process).  No lock   *)
(* is taken in run: a caller can be overtaken between any two of its       *)
(* accesses of _search_cache and _last_search_time.                        *)
(***************************************************************************)
\* The variables of the sequential callers, which the threads leave alone.
seq_locals ==
    <<last_call_time, pc, query, optimized_query, max_retries, initial_backoff,
      use_cache, attempt, ret, outcomes, kind, gate_passed, slept, stamp_before,
      gate_time, last_dispatch, dispatch_gap, prior, epc, eslept, estamp_before,
      egate_time, eret, invokes>>

\* Caller t goes on as r; the shared state is as the step names it.
ThreadStep(t, r) ==
    /\ threads' = [threads EXCEPT ![t] = r]
    /\ UNCHANGED <<seq_locals, mcp_vars, oq_vars, fn_vars, exec_args>>

\* Lines 77-82: the call and the lookup on the raw query.
ThreadRun(t, q) ==
    LET hit == raw_cache_hit(search_cache, q, use_cache)
    IN  /\ threads[t].pc = "idle"
        /\ now <= MaxTime
        /\ runs < MaxRuns
        /\ runs' = runs + 1
        /\ ThreadStep(t, [NoThread EXCEPT
                              !.query = q,
                              !.pc = IF hit THEN "done" ELSE "gate",
                              !.ret = IF hit THEN Str(search_cache[q]) ELSE NoRet])
        /\ UNCHANGED <<now, search_cache, last_search_time>>

\* Lines 85-91: the clock and _last_search_time are read, and the caller sleeps
\* if the gate says so.
ThreadGate(t) ==
    LET d == delay_time(now, last_search_time)
    IN  /\ threads[t].pc = "gate"
        /\ ThreadStep(t, [threads[t] EXCEPT
                              !.seen = last_search_time,
                              !.pc = IF d > 0 THEN "sleep" ELSE "lookup",
                              !.wake = IF d > 0 THEN now + d ELSE 0])
        /\ UNCHANGED <<now, search_cache, last_search_time, runs>>

\* time.sleep of line 91 or of line 119 ends.
ThreadWake(t) ==
    /\ threads[t].pc \in {"sleep", "backoff"}
    /\ now >= threads[t].wake
    /\ ThreadStep(t, [threads[t] EXCEPT
                          !.pc = IF threads[t].pc = "sleep" THEN "lookup" ELSE "call",
                          !.wake = 0])
    /\ UNCHANGED <<now, search_cache, last_search_time, runs>>

\* Lines 94-101: the optimizer and the lookup on the optimized query.
ThreadLookup(t) ==
    LET q == threads[t].query
        opt == optimize_search_query(q)
        hit == optimized_cache_hit(search_cache, q, opt, use_cache)
    IN  /\ threads[t].pc = "lookup"
        /\ ThreadStep(t, [threads[t] EXCEPT
                              !.pc = IF hit THEN "done" ELSE "stamp",
                              !.ret = IF hit THEN Str(search_cache[opt]) ELSE NoRet])
        /\ UNCHANGED <<now, search_cache, last_search_time, runs>>

\* Line 104: the update of _last_search_time.
ThreadStamp(t) ==
    /\ threads[t].pc = "stamp"
    /\ last_search_time' = stamp_search(now, last_search_time, last_call_time)[1]
    /\ ThreadStep(t, [threads[t] EXCEPT !.pc = "call", !.passed = now])
    /\ UNCHANGED <<now, search_cache, runs>>

\* Lines 106-124 but the cache writes: search_runner.run is called and ends as o.
\* (The jitter is the least one and Wikipedia is down.)
ThreadCall(t, o) ==
    LET th == threads[t]
        retry == o.type = "ddg" /\ should_retry(o.text, th.attempt, max_retries)
        b == backoff_time(initial_backoff, th.attempt, JitterLo)
        stores == o.type = "ok" /\ use_cache
    IN  /\ th.pc = "call"
        /\ ThreadStep(t, [th EXCEPT
               !.called = th.called + 1,
               !.dispatched = IF th.called = 0 THEN now ELSE th.dispatched,
               !.attempt = IF retry THEN th.attempt + 1 ELSE th.attempt,
               !.wake = IF retry THEN now + b ELSE 0,
               !.result = IF o.type = "ok" THEN o.text ELSE <<>>,
               !.pc = IF retry THEN "backoff" ELSE IF stores THEN "store_raw" ELSE "done",
               !.ret = IF retry \/ stores THEN NoRet
                       ELSE IF o.type = "ok" THEN Str(o.text)
                       ELSE IF o.type = "exc" THEN Str(UnexpectedSearchError(o.text))
                       ELSE Str(fallback_search(th.query,
                                                [type |-> "exc", text |-> <<>>]))])
        /\ UNCHANGED <<now, search_cache, last_search_time, runs>>

\* Line 111: the write under the raw query.
ThreadStoreRaw(t) ==
    LET th == threads[t]
    IN  /\ th.pc = "store_raw"
        /\ search_cache' = (th.query :> th.result) @@ search_cache
        /\ ThreadStep(t, [th EXCEPT !.pc = "store_opt"])
        /\ UNCHANGED <<now, last_search_time, runs>>

\* Lines 112-113: the write under the optimized query, and the return.
ThreadStoreOpt(t) ==
    LET th == threads[t]
    IN  /\ th.pc = "store_opt"
        /\ search_cache' = (optimize_search_query(th.query) :> th.result) @@ search_cache
        /\ ThreadStep(t, [th EXCEPT !.pc = "done", !.ret = Str(th.result)])
        /\ UNCHANGED <<now, last_search_time, runs>>

\* The caller takes what run returned.
ThreadReturn(t) ==
    /\ threads[t].pc = "done"
    /\ ThreadStep(t, NoThread)
    /\ UNCHANGED <<now, search_cache, last_search_time, runs>>

\* A second passes, whatever the callers are doing.
ThreadTick ==
    /\ now < MaxTime
    /\ now' = now + 1
    /\ UNCHANGED <<search_cache, last_search_time, runs, seq_locals>>
    /\ UNCHANGED <<mcp_vars, oq_vars, aux_vars>>

\* The callers ask for a short query or for a long one.
ThreadQueries == {QShort, QLong}

NextThreads ==
    \/ \E t \in Threads, q \in ThreadQueries : ThreadRun(t, q)
    \/ \E t \in Threads : ThreadGate(t)
    \/ \E t \in Threads : ThreadWake(t)
    \/ \E t \in Threads : ThreadLookup(t)
    \/ \E t \in Threads : ThreadStamp(t)
    \/ \E t \in Threads, o \in SearchOutcomes : ThreadCall(t, o)
    \/ \E t \in Threads : ThreadStoreRaw(t)
    \/ \E t \in Threads : ThreadStoreOpt(t)
    \/ \E t \in Threads : ThreadReturn(t)
    \/ ThreadTick

SpecThreads ==
    Construct(default_max_retries, default_initial_backoff, TRUE) /\ mcp_globals = NoMcp
        /\ [][NextThreads]_vars

(***************************************************************************)
(* Instances of RateLimitedSearchTool with and without the cache, in one   *)
(* process: _search_cache is a global of the module and _last_search_time  *)
(* an attribute of the class, so every instance works on the same two.     *)
(***************************************************************************)
\* Lines 69-75: the caller builds an instance with use_cache = cached (and the
\* defaults otherwise) and calls that one from now on.
UseInstance(cached) ==
    /\ pc = "idle"
    /\ use_cache # cached
    /\ use_cache' = cached
    /\ max_retries' = default_max_retries
    /\ initial_backoff' = default_initial_backoff
    /\ UNCHANGED <<now, search_cache, last_search_time, last_call_time, pc, query,
                   optimized_query, attempt, ret, outcomes, kind, gate_passed, slept,
                   stamp_before, gate_time, last_dispatch, dispatch_gap, prior, epc,
                   eslept, estamp_before, egate_time, eret, runs, invokes>>
    /\ UNCHANGED <<mcp_vars, oq_vars, aux_vars>>

UseInstances == \E cached \in BOOLEAN : UseInstance(cached)

NextInstances == Starts \/ AgentAttempts \/ AgentReturns \/ Tick \/ UseInstances

SpecInstances == InitAgent /\ [][NextInstances]_vars

\* The executor constructed with any max_searches up to the default one.
InitBudget ==
    /\ \E n \in 1..default_max_searches :
           ConstructWith(default_max_retries, default_initial_backoff, TRUE, n)
    /\ mcp_globals = NoMcp

NextBudget ==
    ExecInvoke \/ AgentStarts \/ AgentAttempts \/ AgentReturns \/ Finishes \/ ExecReturn

SpecBudget == InitBudget /\ [][NextBudget]_vars

\* The search tool, called by any caller.
Next == Starts \/ Attempts \/ Returns \/ Tick

\* The program of main.py: the agent runs inside rate_limited_executor.invoke.
NextAgent ==
    ExecInvoke \/ AgentStarts \/ AgentAttempts \/ AgentReturns \/ Finishes \/ ExecReturn
        \/ Tick

Spec == Init /\ [][Next]_vars

SpecAnySetting == InitAny /\ [][Next]_vars

SpecAgent == InitAgent /\ [][NextAgent]_vars

\* The search tool when every call of search_runner.run returns or raises and
\* every time.sleep ends: a loop iteration that can be taken is taken.
\* (Here the history keeps no earlier invocation.)
NextFair == Starts \/ Attempts \/ AgentReturns \/ Tick
SpecFair == Init /\ [][NextFair]_vars /\ WF_vars(Attempts)

(***************************************************************************)
(* History of the invocation of run in progress.                           *)
(***************************************************************************)
\* the rate-limit signature: a DuckDuckGoSearchException whose message has "Ratelimit"
RateLimited(o) == o.type = "ddg" /\ Contains(o.text, "Ratelimit")

Calls == Len(outcomes)
AllRateLimited == \A i \in 1..Len(outcomes) : RateLimited(outcomes[i])
FirstRateLimited(k) == \A i \in 1..k : RateLimited(outcomes[i])
FallbackOutputs(q) == {fallback_search(q, wiki) : wiki \in WikiOutcomes}
CacheHit == kind \in {"cache_raw", "cache_opt"}

(***************************************************************************)
(* C1.  The claim: run returns a string on every exit path, for every      *)
(* query, every constructor setting of max_retries, initial_backoff and    *)
(* use_cache, and every behaviour of the search call and of Wikipedia.     *)
(***************************************************************************)
\* C1 as claimed: every invocation of run ends by returning a string.
C1_AlwaysReturnsString == pc = "done" => ret.tag = "str"

\* C1 amended: when max_retries and initial_backoff are not negative, every
\* invocation of run ends by returning a string: it raises nothing and does not
\* return None.
C1_ReturnsStringWhenSettingsNotNegative ==
    (pc = "done" /\ max_retries >= 0 /\ initial_backoff >= 0) => ret.tag = "str"

\* An invocation with sound settings that was rate-limited on every attempt, the
\* last one included, and ended with the fallback's string.
C1_Witness ==
    /\ pc = "done"
    /\ max_retries >= 1
    /\ initial_backoff >= 0
    /\ Calls = max_retries + 1
    /\ AllRateLimited
    /\ ret.tag = "str"

C3_ExhaustionThenFallback ==
    (pc = "done" /\ Calls >= 1 /\ AllRateLimited)
        => /\ Calls = max_retries + 1
           /\ kind = "fallback"
           /\ ret.tag = "str"
           /\ ret.val \in FallbackOutputs(query)

\* With max_retries = 3: four rate-limited calls, then the fallback.
C3_Witness ==
    /\ pc = "done"
    /\ max_retries = 3
    /\ Calls = 4
    /\ AllRateLimited
    /\ kind = "fallback"

(***************************************************************************)
(* C4.  Retry then success: k rate-limited attempts followed by a success, *)
(* with max_retries >= k, make run return the success value after exactly  *)
(* k + 1 calls.                                                            *)
(***************************************************************************)
\* C4: for every k <= max_retries, after k calls that were all rate-limited run
\* goes on to call number k + 1; and a call that succeeds is the last call of the
\* invocation, which ends there returning that call's result.
C4_RetryThenSuccess ==
    /\ \A k \in 0..max_retries :
           (pc # "idle" /\ ~CacheHit /\ Calls = k /\ AllRateLimited) => pc = "loop"
    /\ \A i \in 1..Calls :
           outcomes[i].type = "ok"
               => /\ i = Calls
                  /\ i <= max_retries + 1
                  /\ FirstRateLimited(i - 1)
                  /\ pc = "done"
                  /\ ret = Str(outcomes[i].text)

\* Rate-limited max_retries times (twice or more), then a success: the last attempt
\* allowed.
C4_Witness ==
    /\ pc = "done"
    /\ max_retries >= 2
    /\ Calls = max_retries + 1
    /\ FirstRateLimited(max_retries)
    /\ outcomes[Calls].type = "ok"
    /\ ret = Str(outcomes[Calls].text)

(***************************************************************************)
(* C5.  The claim: a failure of the search call other than the rate-limit  *)
(* signature is not retried and comes back as an "Unexpected ... error"    *)
(* string, not as a fallback result.                                       *)
(***************************************************************************)
\* C5 as claimed: after a call that failed otherwise than with the rate-limit
\* signature, run makes no further call and returns the error string with that
\* failure's message.
C5_OtherFailureIsErrorString ==
    \A i \in 1..Calls :
        (outcomes[i].type # "ok" /\ ~RateLimited(outcomes[i]))
            => /\ i = Calls
               /\ pc = "done"
               /\ kind = "error_string"
               /\ ret = Str(UnexpectedSearchError(outcomes[i].text))

(***************************************************************************)
(* C6.  The claim: fallback_search is called only when retries are         *)
(* exhausted.                                                              *)
(***************************************************************************)
\* C6 as claimed: an invocation that ended in fallback_search made
\* max_retries + 1 calls, every one rate-limited.
C6_FallbackOnlyAfterExhaustion ==
    (pc = "done" /\ kind = "fallback") => (Calls = max_retries + 1 /\ AllRateLimited)

(***************************************************************************)
(* C7.  The claim: two consecutive calls of search_runner.run, within one  *)
(* invocation or across invocations, are at least                          *)
(* _min_delay_between_searches (5 seconds) apart.                          *)
(***************************************************************************)
\* C7 as claimed: whenever search_runner.run has been called after an earlier call
\* of it, at least 5 seconds lie between the two.
C7_DispatchSpacing ==
    dispatch_gap # -1 => dispatch_gap >= min_delay_between_searches

(***************************************************************************)
(* C8.  The claim: every pass through a rate gate, slept or not, is        *)
(* followed by setting the gate's timestamp to the current time, on every  *)
(* path of run that reaches the gate and in invoke, and the update stays   *)
(* whatever the call that follows does.                                    *)
(***************************************************************************)
\* C8 as claimed: once an invocation of run has left its gate, and until it has
\* returned, _last_search_time is the time at which it left the gate; the same for
\* invoke and last_call_time, until invoke has returned or raised.
C8_StampAfterEveryGatePass ==
    /\ (pc # "idle" /\ gate_passed) => last_search_time = gate_time
    /\ epc # "idle" => last_call_time = egate_time

(***************************************************************************)
(* C9.  First call is immediate: while a gate's timestamp has never been   *)
(* set (it is 0), an invocation through that gate does not sleep.          *)
(***************************************************************************)
\* C9: an invocation of run that went through the search gate while
\* _last_search_time was 0 did not sleep there, and an invocation of invoke that
\* began while last_call_time was 0 did not sleep either.
C9_FirstCallImmediate ==
    /\ (pc # "idle" /\ gate_passed /\ stamp_before = 0) => slept = 0
    /\ (epc # "idle" /\ estamp_before = 0) => eslept = 0

\* The first invocation of each gate, less than min_delay after time 0, so that
\* only the test of the timestamp keeps them from sleeping.
C9_Witness ==
    /\ epc = "inner"
    /\ estamp_before = 0
    /\ egate_time < min_delay
    /\ eslept = 0
    /\ pc = "loop"
    /\ gate_passed
    /\ stamp_before = 0
    /\ gate_time < min_delay_between_searches
    /\ slept = 0

(***************************************************************************)
(* C10.  The two gates are independent: run never changes last_call_time,  *)
(* invoke never changes _last_search_time, and the sleep of either gate    *)
(* depends on its own timestamp only.                                      *)
(***************************************************************************)
RunStep == pc # "idle" \/ pc' # "idle"
RunGateStep == pc = "idle" /\ pc' # "idle" /\ gate_passed'
InvokeStep == epc' # epc
InvokeGateStep == epc = "idle" /\ epc' = "inner"
WaitFor(elapsed, delay, stamp) == IF elapsed < delay /\ stamp > 0 THEN delay - elapsed ELSE 0

\* C10: every step of run leaves last_call_time as it is and every step of invoke
\* leaves _last_search_time as it is; the sleep of run's gate is the one that
\* _last_search_time and the clock give, and the sleep of invoke's gate the one
\* that last_call_time and the clock give.
C10_GatesIsolated ==
    [][/\ RunStep => last_call_time' = last_call_time
       /\ InvokeStep => last_search_time' = last_search_time
       /\ RunGateStep =>
              slept' = WaitFor(now - last_search_time, min_delay_between_searches,
                               last_search_time)
       /\ InvokeGateStep =>
              eslept' = WaitFor(now - last_call_time, min_delay, last_call_time)]_vars

\* Both gates slept: the second invocation of invoke, and in it the second
\* invocation of run, each after its own timestamp, the two timestamps differing.
C10_Witness ==
    /\ epc = "inner"
    /\ eslept > 0
    /\ pc = "loop"
    /\ slept > 0
    /\ estamp_before # stamp_before
    /\ last_call_time # last_search_time

(***************************************************************************)
(* C11.  The backoff schedule of the loop of run (lines 106-119).          *)
(***************************************************************************)
AttemptStep == pc = "loop" /\ Len(outcomes') = Len(outcomes) + 1
AttemptOutcome == outcomes'[Len(outcomes')]

\* C11: attempt i is the call after i earlier ones; when it raises the rate-limit
\* signature and i < max_retries, run sleeps initial_backoff * 3^i + j seconds with
\* j in 1..3, the attempt index grows by exactly one and attempt i + 1 follows;
\* after a success, another error or the last attempt no time passes, the index
\* stays and the loop is left.
C11_BackoffSchedule ==
    [][AttemptStep =>
          /\ attempt = Len(outcomes)
          /\ IF RateLimited(AttemptOutcome) /\ attempt < max_retries
             THEN /\ (now' - now) - initial_backoff * (3 ^ attempt) \in 1..3
                  /\ attempt' = attempt + 1
                  /\ pc' = "loop"
             ELSE /\ now' = now
                  /\ attempt' = attempt
                  /\ pc' = "done"]_vars

\* Two backoffs with the default initial_backoff were slept, the first with the
\* largest jitter and the second with the least, and attempt 2 is next.
C11_Witness ==
    /\ pc = "loop"
    /\ attempt = 2
    /\ Calls = 2
    /\ initial_backoff = default_initial_backoff
    /\ now - gate_time = (default_initial_backoff + JitterHi)
                          + (default_initial_backoff * 3 + JitterLo)

(***************************************************************************)
(* C12.  The loop of run is bounded (lines 106-124).                       *)
(***************************************************************************)
RECURSIVE TotalBackoffBound(_, _)
TotalBackoffBound(backoff, retries) ==
    IF retries <= 0 THEN 0
    ELSE TotalBackoffBound(backoff, retries - 1) + backoff * (3 ^ (retries - 1)) + 3

\* C12: an invocation of run makes at most max_retries + 1 calls of the search
\* runner and sleeps at most max_retries backoffs, which add up to at most the sum
\* over i < max_retries of initial_backoff * 3^i + 3 (74 seconds with the defaults);
\* and an invocation that is in the loop leaves it.
C12_BoundedRetry ==
    /\ [](gate_passed =>
            /\ Calls <= max_retries + 1
            /\ attempt <= max_retries
            /\ now - gate_time <= TotalBackoffBound(initial_backoff, max_retries)
            /\ (max_retries = 3 /\ initial_backoff = 5) => now - gate_time <= 74)
    /\ (pc = "loop" ~> pc = "done")

\* The default settings, every call rate-limited and every jitter the largest:
\* four calls and three backoffs of 74 seconds together, then the fallback.
C12_Witness ==
    /\ pc = "done"
    /\ kind = "fallback"
    /\ max_retries = default_max_retries
    /\ initial_backoff = default_initial_backoff
    /\ Calls = default_max_retries + 1
    /\ attempt = default_max_retries
    /\ now - gate_time = 74

(***************************************************************************)
(* C13.  optimize_search_query against its reference (lines 45-58).        *)
(***************************************************************************)
\* The reference: the words that are neither short nor stop-words, in order
RECURSIVE Meaningful(_)
Meaningful(ws) ==
    IF ws = <<>> THEN <<>>
    ELSE IF Len(Head(ws)) <= 2 \/ Lower(Head(ws)) \in filler_words
         THEN Meaningful(Tail(ws))
         ELSE <<Head(ws)>> \o Meaningful(Tail(ws))

\* the words with a single space between each two
SingleSpaced(ws) ==
    IF ws = <<>> THEN <<>>
    ELSE [i \in 1..(2 * Len(ws) - 1) |-> IF i % 2 = 1 THEN ws[(i + 1) \div 2] ELSE " "]

Reference(q) ==
    IF Len(Split(q)) <= 8 THEN q
    ELSE IF Len(Meaningful(Split(q))) >= 4 THEN SingleSpaced(Meaningful(Split(q)))
    ELSE q

\* C13: what optimize_search_query returns is what the reference gives (a query of
\* more than 8 words loses its words of length <= 2 and its stop-words and, if at
\* least 4 words remain, is these joined by single spaces in order; any other
\* query is returned unchanged), and the call leaves the cache and both gate
\* timestamps as they are.
C13_OptimizerIsReference ==
    /\ [](oq_pc = "returned" => oq_result = Reference(oq_query))
    /\ [][oq_pc' = "returned" =>
             /\ search_cache' = search_cache
             /\ last_search_time' = last_search_time
             /\ last_call_time' = last_call_time]_vars

\* A query of nine words of which four remain.
C13_Witness ==
    /\ oq_pc = "returned"
    /\ Len(Split(oq_query)) = 9
    /\ Len(Split(oq_result)) = 4
    /\ oq_result # oq_query
    /\ oq_result = SingleSpaced(<<"job", "job", "job", "job">>)

(***************************************************************************)
(* C14.  Long queries and their cache keys (lines 45-58 and 93-113).       *)
(***************************************************************************)
\* The invocation ran the optimizer on a query of more than 8 words of which at
\* least 4 are meaningful.
Reducible ==
    /\ pc # "idle"
    /\ kind # "cache_raw"
    /\ Len(Split(query)) > 8
    /\ Len(Meaningful(Split(query))) >= 4

StoredUnderBoth ==
    /\ query \in DOMAIN search_cache
    /\ optimized_query \in DOMAIN search_cache
    /\ search_cache[query] = ret.val
    /\ search_cache[optimized_query] = ret.val

\* C14 as claimed: for every such query the optimized form differs from the query,
\* and after a successful search the result is stored under the optimized form, a
\* key of its own.
C14_OptimizedAlwaysDiffers ==
    Reducible =>
        /\ optimized_query # query
        /\ kind = "success" => StoredUnderBoth

\* C14 as amended: for every such query the optimized form differs from the query
\* exactly when a word is dropped or the query is not its words joined by single
\* spaces; after a successful search the result is stored under the optimized form
\* and under the query, two keys in that case and one key otherwise.
C14_OptimizedDiffersWhenReduced ==
    Reducible =>
        /\ optimized_query # query <=>
               \/ Len(Meaningful(Split(query))) < Len(Split(query))
               \/ query # SingleSpaced(Split(query))
        /\ kind = "success" => StoredUnderBoth

\* After a successful search for the nine-word query that loses nothing, stored
\* under its one key, a successful search for the query that loses words is stored
\* under two more.
C14_Witness ==
    /\ pc = "done"
    /\ kind = "success"
    /\ query = QLong
    /\ optimized_query = QOpt
    /\ StoredUnderBoth
    /\ prior.query = QPlain
    /\ DOMAIN search_cache = {QPlain, QLong, QOpt}

(***************************************************************************)
(* C15.  The keys of the cache lookups and writes (lines 79-113).          *)
(***************************************************************************)
\* C15: with use_cache, an invocation returns the entry of the raw query when there
\* is one, else the entry of the optimized query when there is one, else it calls
\* the search runner; after a successful call the cache maps the raw and the
\* optimized query to the result; and every call of the search runner is made with
\* the optimized query.
C15_CacheKeys ==
    /\ kind = "cache_raw" =>
            /\ use_cache
            /\ query \in DOMAIN search_cache
            /\ ret = Str(search_cache[query])
            /\ Calls = 0
    /\ kind = "cache_opt" =>
            /\ use_cache
            /\ query \notin DOMAIN search_cache
            /\ optimized_query = optimize_search_query(query)
            /\ optimized_query \in DOMAIN search_cache
            /\ ret = Str(search_cache[optimized_query])
            /\ Calls = 0
    /\ (use_cache /\ pc = "loop" /\ Calls = 0) =>
            /\ query \notin DOMAIN search_cache
            /\ optimize_search_query(query) \notin DOMAIN search_cache
    /\ (use_cache /\ kind = "success") =>
            /\ {query, optimize_search_query(query)} \subseteq DOMAIN search_cache
            /\ search_cache[query] = ret.val
            /\ search_cache[optimize_search_query(query)] = ret.val
            /\ ret.val = outcomes[Calls].text
    /\ \A i \in 1..Calls : outcomes[i].arg = optimize_search_query(query)

\* The long query, searched with its optimized form in two calls, the second a
\* success that is stored under both.
C15_Witness ==
    /\ pc = "done"
    /\ use_cache
    /\ kind = "success"
    /\ query = QLong
    /\ Calls = 2
    /\ outcomes[1].arg = QOpt
    /\ outcomes[2].arg = QOpt
    /\ search_cache[QLong] = outcomes[2].text
    /\ search_cache[QOpt] = outcomes[2].text

(***************************************************************************)
(* C16.  The entries of _search_cache stay (lines 60-61 and 79-113).       *)
(***************************************************************************)
\* C16: no step removes a key of the cache or changes the value under it.
C16_CacheOnlyGrows ==
    [][\A k \in DOMAIN search_cache :
          /\ k \in DOMAIN search_cache'
          /\ search_cache'[k] = search_cache[k]]_vars

\* A second successful search, for another query with another result, and the
\* entry of the first is still what it was.
C16_Witness ==
    /\ pc = "done"
    /\ kind = "success"
    /\ prior.kind = "success"
    /\ prior.query # query
    /\ prior.ret # ret
    /\ prior.query \in DOMAIN search_cache
    /\ search_cache[prior.query] = prior.ret.val
    /\ Cardinality(DOMAIN search_cache) >= 3

(***************************************************************************)
(* C17.  The path of one invocation of run (lines 77-124).                 *)
(***************************************************************************)
\* C17: an invocation that ends in a cache hit, on the raw or on the optimized key,
\* made no call and did not wait at the rate gate; an invocation that waited at
\* the rate gate made at least one call of the search runner.
C17_CacheHitSkipsGate ==
    /\ CacheHit => (slept = 0 /\ Calls = 0)
    /\ (pc = "done" /\ slept > 0) => Calls >= 1

(***************************************************************************)
(* C18.  What run writes to the cache before it returns (lines 106-124).   *)
(***************************************************************************)
NotFromCache == pc = "done" /\ use_cache /\ ~CacheHit

McpBegins == mpc = "idle" /\ mpc' # "idle"
McpCallStep == Len(mcalls') = Len(mcalls) + 1

\* C19: an invocation of any of the five wrappers whose MCP function is not in the
\* globals of the module is over in its first step, on the fallback path, with a
\* string, having called no MCP function and slept no time; and no MCP function
\* that is not in the globals is ever called.
C19_UnavailableGoesToFallback ==
    /\ [][(McpBegins /\ capability(mtool') \notin mcp_globals) =>
              /\ mpc' = "done"
              /\ mkind' = "fallback"
              /\ mcalls' = <<>>
              /\ mret'.tag = "str"
              /\ now' = now]_vars
    /\ [][McpCallStep => capability(mtool) \in mcp_globals]_vars

\* deep_research returned its fallback in a process where other MCP functions
\* are there, its own is not.
C19_Witness ==
    /\ mpc = "done"
    /\ mtool = "deep_research"
    /\ capability("deep_research") \notin mcp_globals
    /\ capability("web_search") \in mcp_globals
    /\ mkind = "fallback"
    /\ mcalls = <<>>
    /\ mret = Str(advanced_deep_research(marg))

(***************************************************************************)
(* C20.  deep_research and sequential_thinking with their MCP function     *)
(* there (lines 154-180 and 249-295).                                      *)
(***************************************************************************)
Pipelined == {"deep_research", "sequential_thinking"}
RateLimitedCalls == {i \in 1..Len(mcalls) : mcalls[i].type = "raise" /\ Contains(mcalls[i].text, "Ratelimit")}

C21_FallbackSearchPattern ==
    fn_call.name = "fallback_search" =>
        LET w == fn_call.env
            long == w.type = "ok" /\ StrLen(w.text) > 100
            around ==
                /\ Head(fn_ret.val) = "DuckDuckGo search is currently rate-limited. Using Wikipedia instead:"
                /\ Substring(w.text, Tail(fn_ret.val))
            message ==
                /\ Head(fn_ret.val) = "Search is currently rate-limited. Here are some suggestions: ..."
                /\ Substring(<<"Your query was: '">> \o fn_call.arg \o <<"'">>, fn_ret.val)
        IN  /\ fn_ext = 1
            /\ fn_ret.tag = "str"
            /\ long <=> around
            /\ ~long <=> message

\* Wikipedia returned exactly 100 characters for the long query: the message.
C21_Witness ==
    /\ fn_call.name = "fallback_search"
    /\ fn_call.arg = QLong
    /\ fn_call.env = [type |-> "ok", text |-> <<"w100">>]
    /\ fn_ret = Str(FallbackTemplate(QLong))

(***************************************************************************)
(* C22.  The fallback texts and the query or problem they were asked.      *)
(***************************************************************************)
\* The call is one of a templated fallback: the message of fallback_search, the
\* two texts of advanced_deep_research, fallback_web_search, and
\* advanced_sequential_thinking with steps >= 1.
TemplatedFallback ==
    \/ /\ fn_call.name = "fallback_search"
       /\ ~(fn_call.env.type = "ok" /\ StrLen(fn_call.env.text) > 100)
    \/ fn_call.name \in {"advanced_deep_research", "fallback_web_search"}
    \/ fn_call.name = "advanced_sequential_thinking" /\ fn_call.steps >= 1

AboutTheGita ==
    /\ fn_call.name = "advanced_sequential_thinking"
    /\ \/ Substring(<<"bhagavad", " ", "gita">>, LowerAll(fn_call.arg))
       \/ Substring(<<"bhagwat", " ", "geeta">>, LowerAll(fn_call.arg))

\* C22 as claimed: the text every templated fallback returns has the query or
\* problem it was called with in it.
C22_TemplatesEmbedQuery ==
    TemplatedFallback => Substring(fn_call.arg, fn_ret.val)

\* C22 as amended: so it is for every templated fallback but
\* advanced_sequential_thinking on a problem that names the Bhagavad Gita
\* ("bhagavad gita" or "bhagwat geeta" in its lower-case form), which returns
\* steps that were written beforehand and do not depend on the problem.
C22_TemplatesEmbedQueryButGita ==
    /\ (TemplatedFallback /\ ~AboutTheGita) => Substring(fn_call.arg, fn_ret.val)
    /\ (TemplatedFallback /\ AboutTheGita) =>
           /\ fn_ret.val = advanced_sequential_thinking(QGeeta, fn_call.steps)
           /\ Head(fn_ret.val) =
                  "STEP 1: DEFINE THE SCOPE OF ANALYSIS The question concerns different interpretations of the "

\* One step of advanced_sequential_thinking on the long query, which is in it.
C22_Witness ==
    /\ fn_call.name = "advanced_sequential_thinking"
    /\ fn_call.arg = QLong
    /\ fn_call.steps = 1
    /\ Substring(QLong, fn_ret.val)
    /\ Len(fn_ret.val) = Len(QLong) + 2

(***************************************************************************)
(* C30.  How many steps the sequential-thinking fallbacks return.          *)
(***************************************************************************)
\* The steps of a text: it is empty, or its steps are one more than its "\n\n".
StepCount(text) ==
    IF text = <<>> THEN 0
    ELSE 1 + Cardinality({i \in 1..Len(text) : text[i] = "\n\n"})

RightCount(steps) == IF steps <= 0 THEN 0 ELSE IF steps < 5 THEN steps ELSE 5

\* C30: for every integer steps, advanced_sequential_thinking and
\* fallback_sequential_thinking return min(steps, 5) steps, none for steps <= 0,
\* and they are the first ones, in order.
C30_RightNumberOfSteps ==
    /\ fn_call.name = "advanced_sequential_thinking" =>
           /\ StepCount(fn_ret.val) = RightCount(fn_call.steps)
           /\ fn_ret.val = advanced_sequential_thinking(fn_call.arg, RightCount(fn_call.steps))
    /\ fn_call.name = "fallback_sequential_thinking" =>
           /\ StepCount(fn_ret.val) = RightCount(fn_call.steps)
           /\ fn_ret.val = fallback_sequential_thinking(fn_call.arg, RightCount(fn_call.steps))

(***************************************************************************)
(* C23.  Who changes the search cache and the search timestamp.            *)
(***************************************************************************)
\* A step of another tool or function, or of the executor.
OtherStep ==
    \/ mcp_vars' # mcp_vars
    \/ fn_vars' # fn_vars
    \/ oq_vars' # oq_vars
    \/ epc' # epc

OwnedChanged ==
    search_cache' # search_cache \/ last_search_time' # last_search_time

C25_ToolsReturnStrings ==
    /\ pc = "done" => ret.tag = "str"
    /\ mpc = "done" => mret.tag = "str"
    /\ fn_call.name \in BasicTools => fn_ret.tag = "str"

(***************************************************************************)
(* C24.  The max_searches of RateLimitedAgentExecutor.                     *)
(***************************************************************************)
\* C24: an executor constructed with max_searches = n performs no more than n
\* search operations: no more than n calls of the search tool, and no more than n
\* calls of search_runner.run.
C24_SearchesWithinBudget ==
    /\ runs <= max_searches
    /\ Len(outcomes) <= max_searches

(***************************************************************************)
(* C26.  Two callers of run and no lock.                                   *)
(***************************************************************************)
\* Callers a and b are both past line 104 in their invocations, and passed it
\* less than the gate's delay apart.
PassedClose(a, b) ==
    /\ threads[a].passed > 0
    /\ threads[b].passed > 0
    /\ threads[a].passed - threads[b].passed < min_delay_between_searches
    /\ threads[b].passed - threads[a].passed < min_delay_between_searches

\* Each of the two read _last_search_time at the gate before the other wrote it.
BothReadBeforeEitherWrote(a, b) ==
    /\ threads[a].seen < threads[b].passed
    /\ threads[b].seen < threads[a].passed

\* C26: two callers get through the gate less than min_delay apart, and it takes
\* the race to do so: whenever they have, each read _last_search_time before the
\* other updated it (the interleaving itself is the witness below, where both
\* also missed the cache for the same query and both called search_runner.run).
C26_GateBrokenByRaceOnly ==
    \A a \in Threads : \A b \in Threads \ {a} :
        PassedClose(a, b) => BothReadBeforeEitherWrote(a, b)

\* Both callers looked the same query up, missed, passed the gate before either
\* wrote the timestamp, and called search_runner.run less than 5 seconds apart.
C26_Witness ==
    /\ threads[1].query = threads[2].query
    /\ threads[1].called = 1
    /\ threads[2].called = 1
    /\ threads[1].attempt = 0
    /\ threads[2].attempt = 0
    /\ PassedClose(1, 2)
    /\ BothReadBeforeEitherWrote(1, 2)
    /\ threads[1].dispatched - threads[2].dispatched < min_delay_between_searches
    /\ threads[2].dispatched - threads[1].dispatched < min_delay_between_searches

(***************************************************************************)
(* C29.  The timestamps of the two gates.                                  *)
(***************************************************************************)
\* The step of run that writes _last_search_time (line 104): it went through the
\* gate and did not return from the cache on line 101.
RunStampStep == RunGateStep /\ kind' # "cache_opt"

\* C29: neither gate's timestamp ever decreases; an update of a timestamp that
\* was set before comes at least the gate's delay after it (5 s for run, min_delay
\* for invoke); and a gate sleeps more than 0 and at most its delay, or not at all.
C29_GateTimestamps ==
    [][/\ last_search_time' >= last_search_time
       /\ last_call_time' >= last_call_time
       /\ last_search_time' # last_search_time => RunStampStep
       /\ last_call_time' # last_call_time => InvokeGateStep
       /\ (RunStampStep /\ last_search_time > 0) =>
              last_search_time' - last_search_time >= min_delay_between_searches
       /\ (InvokeGateStep /\ last_call_time > 0) =>
              last_call_time' - last_call_time >= min_delay
       /\ RunGateStep => slept' \in 0..min_delay_between_searches
       /\ InvokeGateStep => eslept' \in 0..min_delay]_vars

\* Both gates slept before an update of a timestamp that was set before: the new
\* timestamps are the gate's delay after the old ones.
C29_Witness ==
    /\ epc = "inner"
    /\ estamp_before > 0
    /\ eslept > 0
    /\ last_call_time = estamp_before + min_delay
    /\ pc = "loop"
    /\ stamp_before > 0
    /\ slept > 0
    /\ last_search_time = stamp_before + min_delay_between_searches

(***************************************************************************)
(* C27.  The loop of sequential_thinking.                                  *)
(***************************************************************************)
\* sequential_thinking is running, or has ended, on its MCP function.
ThinkingPrimary ==
    /\ mtool = "sequential_thinking"
    /\ registered(capability("sequential_thinking"), mcp_globals)
    /\ mpc # "idle"

\* The call that ended in an exception: the function raised, or what it returned
\* is no dict.
Failed(o) == o.type \in {"raise", "other"}
SomeCallFailed == \E i \in 1..Len(mcalls) : Failed(mcalls[i])

\* Every response so far asked for another thought.
AllNeedMore == \A i \in 1..Len(mcalls) : mcalls[i].type = "dict" /\ mcalls[i].more

\* The text has the entry "Step i: " followed by the thought of call i.
HasStep(text, i) ==
    \E k \in 1..Len(text) - 1 :
        /\ text[k] = "Step " \o ToString(i) \o ": "
        /\ text[k + 1] = mcalls[i].text[1]

\* C27: with the thinking capability there, an invocation of sequential_thinking
\* calls it at most 10 times, and when it has ended at least once; it ends with
\* one "Step n" entry for each call, or, a call having raised, with the text of
\* advanced_sequential_thinking; and it does end.
C27_ThinkingLoopBounded ==
    /\ [](ThinkingPrimary =>
            /\ Len(mcalls) <= MaxThoughts
            /\ thought_number <= MaxThoughts
            /\ mpc = "done" =>
                  /\ Len(mcalls) >= 1
                  /\ mret.tag = "str"
                  /\ ~SomeCallFailed =>
                        /\ StepCount(mret.val) = Len(mcalls)
                        /\ \A i \in 1..Len(mcalls) : HasStep(mret.val, i)
                  /\ SomeCallFailed =>
                        mret.val = advanced_sequential_thinking(marg, DefaultSteps))
    /\ ((ThinkingPrimary /\ mpc = "primary") ~> mpc = "done")

\* Ten calls that all asked for another thought, and the invocation has ended with
\* ten steps.
C27_Witness ==
    /\ ThinkingPrimary
    /\ mpc = "done"
    /\ Len(mcalls) = MaxThoughts
    /\ AllNeedMore
    /\ StepCount(mret.val) = MaxThoughts

(***************************************************************************)
(* C28.  An instance built with use_cache = False.                         *)
(***************************************************************************)
\* C28: while the instance in use has use_cache disabled, no step of run changes
\* _search_cache, a call of run goes through the gate to the loop whatever the
\* cache holds, no invocation ends with a cached result, and an invocation that
\* has ended has called search_runner.run.
C28_CacheUntouchedWhenDisabled ==
    /\ [][(RunStep /\ ~use_cache) =>
              /\ search_cache' = search_cache
              /\ pc = "idle" => (pc' = "loop" /\ gate_passed' /\ last_search_time' = now')]_vars
    /\ []((pc # "idle" /\ ~use_cache) =>
              /\ kind \notin {"cache_raw", "cache_opt"}
              /\ pc = "done" => Calls >= 1)

\* The query is in the cache, the instance without the cache searched for it all
\* the same and got another result, and the cache holds the old one still.
C28_Witness ==
    /\ ~use_cache
    /\ pc = "done"
    /\ kind = "success"
    /\ Calls = 1
    /\ query \in DOMAIN search_cache
    /\ optimized_query \in DOMAIN search_cache
    /\ ret.val # search_cache[query]


====
